---- MODULE Spec2Model ----
(***************************************************************************)
(* Model of scripts/fetch_fbref.py: the La Liga statistics pipeline.       *)
(* Text is modelled as sequences of one-character strings, so that strip,  *)
(* split, upper/lower, accent removal and number parsing are computed and  *)
(* not assumed.  A table cell is a tagged value (string, int, float NaN,   *)
(* None), as pandas hands them to the script.                              *)
(***************************************************************************)
EXTENDS Integers, Sequences, FiniteSets, TLC

VARIABLES
    stage,          \* position of main(): which statement block runs next
    rows,           \* rows the running `for _, row in <df>.iterrows()` has still to visit
    players,        \* dict players: key -> record
    order,          \* insertion order of the keys of dict players
    player_list,    \* list player_list (references to the records, by key)
    cursor,         \* number of records the scoring loop has visited
    missing,        \* secondary sources whose fetch_table returned None
    stdNames,       \* history: raw Player cells of the rows of the standard table
    exit_code,      \* process exit status ("running" until the process ends)
    output,         \* content of data/laliga-stats.json ("unwritten" until written)
    arg,            \* argument of a stand-alone call of a function of the script
    ret             \* its return value

vars == <<stage, rows, players, order, player_list, cursor, missing, stdNames,
          exit_code, output, arg, ret>>

----------------------------------------------------------------------------
(* Bounds of the model *)

\* longest text handed to a stand-alone call of safe_int
MaxLen == 4
\* most rows of the standard-stats page's table
MaxStdRows == 2
\* most rows of a secondary page's table
MaxSecRows == 1
\* largest statistic of a record handed to a stand-alone call of calculate_points
MaxStat == 3

----------------------------------------------------------------------------
(* Python values *)

Str(s)  == [k |-> "str",   s |-> s,    n |-> 0]
IntV(n) == [k |-> "int",   s |-> <<>>, n |-> n]
NaN     == [k |-> "float", s |-> <<>>, n |-> 0]      \* float('nan'), an empty cell
None    == [k |-> "None",  s |-> <<>>, n |-> 0]

Digits == <<"0", "1", "2", "3", "4", "5", "6", "7", "8", "9">>
IsDigit(c) == \E i \in 1..Len(Digits) : Digits[i] = c
DigitValue(c) == (CHOOSE i \in 1..Len(Digits) : Digits[i] = c) - 1

\* repr of a non-negative int
RECURSIVE NatStr(_)
NatStr(n) == IF n < 10 THEN <<Digits[n + 1]>>
             ELSE NatStr(n \div 10) \o <<Digits[(n % 10) + 1]>>

\* str(val)
str(val) ==
    CASE val.k = "str"   -> val.s
      [] val.k = "int"   -> IF val.n < 0 THEN <<"-">> \o NatStr(-val.n) ELSE NatStr(val.n)
      [] val.k = "float" -> <<"n", "a", "n">>
      [] val.k = "None"  -> <<"N", "o", "n", "e">>

IsSpace(c) == c = " "

\* s.strip()
RECURSIVE lstrip(_)
lstrip(s) == IF s # <<>> /\ IsSpace(Head(s)) THEN lstrip(Tail(s)) ELSE s
RECURSIVE rstrip(_)
rstrip(s) == IF s # <<>> /\ IsSpace(s[Len(s)]) THEN rstrip(SubSeq(s, 1, Len(s) - 1)) ELSE s
strip(s) == rstrip(lstrip(s))

LowerOf == [A |-> "a", D |-> "d", E |-> "e", F |-> "f", G |-> "g", J |-> "j",
            K |-> "k", M |-> "m", N |-> "n", O |-> "o", P |-> "p", S |-> "s",
            W |-> "w", X |-> "x"]
\* c.lower() and c.upper() of one character
lowerc(c) == IF c \in DOMAIN LowerOf THEN LowerOf[c] ELSE c
upperc(c) == IF \E u \in DOMAIN LowerOf : LowerOf[u] = c
             THEN CHOOSE u \in DOMAIN LowerOf : LowerOf[u] = c ELSE c
lower(s) == [i \in 1..Len(s) |-> lowerc(s[i])]
upper(s) == [i \in 1..Len(s) |-> upperc(s[i])]

----------------------------------------------------------------------------
(* safe_int *)

\* float(s): "error" stands for ValueError, "nan" for a NaN result; a finite
\* result carries its sign and the integer part of its magnitude
FloatError == [r |-> "error", neg |-> FALSE, ip |-> 0]
FloatNaN   == [r |-> "nan",   neg |-> FALSE, ip |-> 0]

RECURSIVE DigitsValue(_, _)
DigitsValue(s, acc) == IF s = <<>> THEN acc
                       ELSE DigitsValue(Tail(s), acc * 10 + DigitValue(Head(s)))

RECURSIVE LeadingDigits(_)
LeadingDigits(s) == IF s # <<>> /\ IsDigit(Head(s))
                    THEN <<Head(s)>> \o LeadingDigits(Tail(s)) ELSE <<>>

float(text) ==
    LET t    == strip(text)
        neg  == t # <<>> /\ Head(t) = "-"
        sgn  == t # <<>> /\ Head(t) \in {"-", "+"}
        u    == IF sgn THEN Tail(t) ELSE t
        ip   == LeadingDigits(u)
        rest == SubSeq(u, Len(ip) + 1, Len(u))
        fr   == IF rest # <<>> /\ Head(rest) = "." THEN LeadingDigits(Tail(rest)) ELSE <<>>
        tail == IF rest # <<>> /\ Head(rest) = "."
                THEN SubSeq(rest, Len(fr) + 2, Len(rest)) ELSE rest
    IN  IF lower(u) = <<"n", "a", "n">> THEN FloatNaN
        ELSE IF tail # <<>> \/ (ip = <<>> /\ fr = <<>>) THEN FloatError
        ELSE [r |-> "num", neg |-> neg, ip |-> DigitsValue(ip, 0)]

\* int(f) of a float: truncation toward zero; raises on NaN
IntOfFloat(f) == IF f.neg THEN -f.ip ELSE f.ip

\* safe_int without the float conversion: int(str(val).strip())
safe_int_no_float(val) ==
    IF val.k = "None" \/ val = Str(<<>>)
       \/ strip(str(val)) \in {<<>>, <<"n", "a", "n">>, <<"N", "a", "N">>}
    THEN 0
    ELSE LET f == float(strip(str(val)))
         IN  IF f.r = "num" /\ \A i \in 1..Len(str(val)) : str(val)[i] # "."
             THEN IntOfFloat(f) ELSE 0

safe_int(val) ==
    IF val.k = "None" \/ val = Str(<<>>)
       \/ strip(str(val)) \in {<<>>, <<"n", "a", "n">>, <<"N", "a", "N">>}
    THEN 0
    ELSE LET f == float(strip(str(val)))
         IN  IF f.r = "num" THEN IntOfFloat(f) ELSE 0     \* except: return 0

----------------------------------------------------------------------------
(* normalise_name *)

\* unicodedata.normalize("NFKD", c) of one character: an accented letter
\* becomes the base letter followed by a combining mark
nfkd(c) == IF c = "e_acute" THEN <<"e", "combining_acute">> ELSE <<c>>
RECURSIVE normalize(_)
normalize(s) == IF s = <<>> THEN <<>> ELSE nfkd(Head(s)) \o normalize(Tail(s))

IsAscii(c) == c \notin {"e_acute", "combining_acute"}
\* s.encode("ascii", "ignore").decode("ascii")
RECURSIVE ascii_ignore(_)
ascii_ignore(s) == IF s = <<>> THEN <<>>
                   ELSE IF IsAscii(Head(s)) THEN <<Head(s)>> \o ascii_ignore(Tail(s))
                   ELSE ascii_ignore(Tail(s))

normalise_name(name) ==
    IF name.k # "str" THEN <<>>
    ELSE lower(strip(ascii_ignore(normalize(name.s))))

----------------------------------------------------------------------------
(* Position mapping *)

POS_MAP ==
    { << <<"G", "K">>, "GK" >>,
      << <<"D", "F">>, "DEF" >>, << <<"D", "F", ",", "M", "F">>, "DEF" >>,
      << <<"D", "F", ",", "F", "W">>, "DEF" >>,
      << <<"M", "F">>, "MID" >>, << <<"M", "F", ",", "D", "F">>, "MID" >>,
      << <<"M", "F", ",", "F", "W">>, "MID" >>,
      << <<"F", "W">>, "FWD" >>, << <<"F", "W", ",", "M", "F">>, "FWD" >>,
      << <<"F", "W", ",", "D", "F">>, "FWD" >> }

\* d.get(k, default) of a dict given as a set of <<key, value>> pairs
DictGet(d, k, default) ==
    IF \E e \in d : e[1] = k THEN (CHOOSE e \in d : e[1] = k)[2] ELSE default

\* s.split(",")[0]
RECURSIVE split0(_)
split0(s) == IF s = <<>> \/ Head(s) = "," THEN <<>> ELSE <<Head(s)>> \o split0(Tail(s))

\* row.get(col, default)
RowGet(row, col, default) == IF col \in DOMAIN row THEN row[col] ELSE default

\* the position code without .upper()
pos_raw_no_upper(row) == strip(split0(str(RowGet(row, "Pos", Str(<<"M", "F">>)))))
pos_raw(row) == upper(strip(split0(str(RowGet(row, "Pos", Str(<<"M", "F">>))))))
pos_of(row) == DictGet(POS_MAP, pos_raw(row), "MID")

----------------------------------------------------------------------------
(* calculate_points *)

\* p.get(f, default)
Get(p, f, default) == IF f \in DOMAIN p THEN p[f] ELSE default

PositionalPoints(p, pos) ==
    CASE pos = "GK"  -> (((0 + Get(p, "cleanSheets", 0) * 4)
                            + (Get(p, "saves", 0) \div 3))
                            + Get(p, "penaltySaves", 0) * 5)
                            - (Get(p, "goalsConceded", 0) \div 2)
      [] pos = "DEF" -> 0 + Get(p, "goals", 0) * 6 + Get(p, "assists", 0) * 3
                          + Get(p, "cleanSheets", 0) * 4 + Get(p, "tacklesWon", 0) * 1
                          + Get(p, "interceptions", 0) * 1
      [] pos = "MID" -> 0 + Get(p, "goals", 0) * 5 + Get(p, "assists", 0) * 3
                          + Get(p, "cleanSheets", 0) * 1 + Get(p, "keyPasses", 0) * 1
                          + Get(p, "shotsOnTarget", 0) * 1
                          + Get(p, "bigChancesCreated", 0) * 1
      [] pos = "FWD" -> 0 + Get(p, "goals", 0) * 4 + Get(p, "assists", 0) * 3
                          + Get(p, "shotsOnTarget", 0) * 1
                          + Get(p, "bigChancesCreated", 0) * 1
      [] OTHER       -> 0

\* calculate_points with divisions that truncate toward zero
TruncDiv(a, b) == IF a < 0 THEN -((-a) \div b) ELSE a \div b
calculate_points_truncating(p) ==
    LET pos == Get(p, "pos", "MID")
        pts == IF pos = "GK"
               THEN Get(p, "cleanSheets", 0) * 4 + TruncDiv(Get(p, "saves", 0), 3)
                    + Get(p, "penaltySaves", 0) * 5
                    - TruncDiv(Get(p, "goalsConceded", 0), 2)
               ELSE PositionalPoints(p, pos)
    IN  pts + Get(p, "yellowCards", 0) * (-1) + Get(p, "redCards", 0) * (-3)
            + Get(p, "ownGoals", 0) * (-2) + Get(p, "penaltiesMissed", 0) * (-2)

calculate_points(p) ==
    LET pos == Get(p, "pos", "MID")
        pts == PositionalPoints(p, pos)
    IN  pts + Get(p, "yellowCards", 0) * (-1) + Get(p, "redCards", 0) * (-3)
            + Get(p, "ownGoals", 0) * (-2) + Get(p, "penaltiesMissed", 0) * (-2)

----------------------------------------------------------------------------
(* Pages the site can serve *)

Jose_accent == <<"J", "o", "s", "e_acute">>
JOSE_padded == <<" ", "J", "O", "S", "E">>
Jose_plain  == <<"J", "o", "s", "e">>
Ana         == <<"A", "n", "a">>
Bob         == <<"B", "o", "b">>
Player      == <<"P", "l", "a", "y", "e", "r">>
Unknown     == <<"U", "n", "k", "n", "o", "w", "n">>

\* the empty row (no columns)
NoColumns == [c \in {} |-> None]

\* Player cells of the standard-stats table
StdPlayerCells == {Str(Jose_accent), Str(JOSE_padded), Str(Ana)}
\* Pos cells of the standard-stats table
PosCells == {Str(<<"G", "K">>), Str(<<"D", "F", ",", "M", "F">>), Str(<<"f", "w", " ">>),
             Str(<<"X", "X">>)}
\* the other columns of a standard-stats row, under the first and under the
\* second alias of the column labels
StdCells ==
    [Rk |-> IntV(1), Squad |-> Str(<<" ", "R", "M">>), Gls |-> Str(<<"2">>),
     Goals |-> Str(<<"7">>), Ast |-> IntV(1), CrdY |-> Str(<<"1", ".", "0">>),
     CrdR |-> NaN, OG |-> Str(<<"a">>), PKmiss |-> Str(<<>>),
     SoT |-> Str(<<" ", "2", ".", "9">>)]
AliasCells ==
    [Rk |-> IntV(2), Goals |-> IntV(1), Assists |-> Str(<<"-", "1">>), PKM |-> Str(<<"1">>)]

\* a header row repeated inside the table, a row without a name, a row of a
\* table without a Player column, and a row whose name is the padded
\* placeholder
HeaderRow   == [Rk |-> Str(<<"R", "k">>), Player |-> Str(Player), Pos |-> Str(<<"P", "o", "s">>)]
NamelessRow == [Rk |-> IntV(3), Player |-> NaN]
BareRow     == [Rk |-> IntV(4)]
PaddedPlaceholderRow == [Rk |-> IntV(5), Player |-> Str(<<" ">> \o Player)]

StdRows ==
    { [Player |-> n, Pos |-> t] @@ StdCells : n \in StdPlayerCells, t \in PosCells }
    \cup { [Player |-> Str(Ana)] @@ AliasCells,
           HeaderRow, NamelessRow, BareRow, PaddedPlaceholderRow }

\* Player cells of the secondary tables
SecPlayerCells == {Str(Jose_plain), Str(Ana), Str(Bob)}

GkCells    == [Rk |-> IntV(1), CS |-> Str(<<"2">>), Saves |-> IntV(10),
               PKsv |-> Str(<<"1">>), GA |-> Str(<<"3", ".", "0">>)]
GkCellsBad == [Rk |-> IntV(2), CS |-> NaN, Saves |-> Str(<<"-", "4">>), GA |-> Str(<<"a">>)]
DefCells    == [Rk |-> IntV(1), TklW |-> Str(<<"2">>), Int |-> IntV(3)]
DefCellsBad == [Rk |-> IntV(2), TklW |-> NaN, Int |-> Str(<<"1", " ", "1">>)]
PasCells    == [Rk |-> IntV(1), KP |-> Str(<<"1", ".", "9">>), PPA |-> IntV(2)]
PasCellsBad == [Rk |-> IntV(2), PPA |-> Str(<<"n", "a", "n">>)]

SecRows(cells, bad) ==
    { [Player |-> n] @@ cells : n \in SecPlayerCells }
    \cup { [Player |-> Str(Jose_plain)] @@ bad, PaddedPlaceholderRow }

\* sequences of at most n elements of S
SeqsUpTo(S, n) == UNION { [1..m -> S] : m \in 0..n }

\* what requests.get and pd.read_html yield for a page: an exception, or the
\* list of the tables of the page (an advertising table may precede the
\* statistics table)
AdTable == << BareRow >>
Responses(rowsOf, n) ==
    { [err |-> TRUE, tables |-> <<>>], [err |-> FALSE, tables |-> <<>>] }
    \cup { [err |-> FALSE, tables |-> <<t>>] : t \in SeqsUpTo(rowsOf, n) }
    \cup { [err |-> FALSE, tables |-> <<AdTable, t>>] : t \in SeqsUpTo(rowsOf, n) }

----------------------------------------------------------------------------
(* fetch_table *)

NoneDF == [none |-> TRUE, rows |-> <<>>]
DF(rs) == [none |-> FALSE, rows |-> rs]

\* max(tables, key=len): the first of the longest tables
RECURSIVE MaxByLen(_, _)
MaxByLen(tables, best) ==
    IF tables = <<>> THEN best
    ELSE MaxByLen(Tail(tables), IF Len(Head(tables)) > Len(best) THEN Head(tables) ELSE best)

Columns(rs) == UNION { DOMAIN rs[i] : i \in 1..Len(rs) }

\* the label of the first column of every table of the site
FirstColumn == "Rk"

NotHeader(row) == RowGet(row, FirstColumn, NaN) # Str(<<"R", "k">>)
HasPlayer(row) == RowGet(row, "Player", NaN) # NaN /\ RowGet(row, "Player", NaN) # Str(Player)

fetch_table(resp) ==
    IF resp.err THEN NoneDF                           \* except Exception: return None
    ELSE IF resp.tables = <<>> THEN NoneDF            \* if not tables: return None
    ELSE LET df  == MaxByLen(Tail(resp.tables), Head(resp.tables))
             df1 == SelectSeq(df, NotHeader)
             df2 == IF "Player" \in Columns(df1) THEN SelectSeq(df1, HasPlayer) ELSE df1
         IN  DF(df2)

----------------------------------------------------------------------------
(* hash(name): the interpreter's string hash, a function of the text that *)
(* may be negative (its per-process seed is fixed during a run)            *)

Alphabet == <<" ", "A", "B", "E", "J", "O", "P", "S", "a", "b", "e", "e_acute",
              "l", "n", "o", "r", "s", "y">>
ord(c) == CHOOSE i \in 1..Len(Alphabet) : Alphabet[i] = c

RECURSIVE HashFold(_, _)
HashFold(s, h) == IF s = <<>> THEN h
                  ELSE HashFold(Tail(s), (h * 31 + ord(Head(s))) % 65536)
hash(s) == HashFold(s, 0) - 32768

abs(n) == IF n < 0 THEN -n ELSE n

----------------------------------------------------------------------------
(* main: the seeding pass over the standard-stats table *)

\* name = str(row.get("Player", "")).strip()
name_of(row) == strip(str(RowGet(row, "Player", Str(<<>>))))
\* if not name or name == "Player": continue
Skipped(row) == name_of(row) = <<>> \/ name_of(row) = Player

\* the closure get(keys, default=0) of the seeding loop
RECURSIVE get(_, _)
get(row, keys) ==
    IF keys = <<>> THEN 0
    ELSE IF Head(keys) \in DOMAIN row THEN safe_int(row[Head(keys)])
    ELSE get(row, Tail(keys))

\* the dict literal assigned to players[key]
SeedRecord(row) ==
    [ id                |-> abs(hash(name_of(row))) % 100000,
      name              |-> name_of(row),
      club              |-> strip(str(RowGet(row, "Squad", Str(Unknown)))),
      pos               |-> pos_of(row),
      goals             |-> get(row, <<"Gls", "Goals">>),
      assists           |-> get(row, <<"Ast", "Assists">>),
      yellowCards       |-> get(row, <<"CrdY">>),
      redCards          |-> get(row, <<"CrdR">>),
      ownGoals          |-> get(row, <<"OG">>),
      penaltiesMissed   |-> get(row, <<"PKmiss", "PKM">>),
      shotsOnTarget     |-> get(row, <<"SoT">>),
      cleanSheets       |-> 0,
      saves             |-> 0,
      penaltySaves      |-> 0,
      goalsConceded     |-> 0,
      tacklesWon        |-> 0,
      interceptions     |-> 0,
      keyPasses         |-> 0,
      bigChancesCreated |-> 0,
      motm              |-> 0 ]

\* players.setdefault(key, rec): the first row of a key is kept
DictSet_keeping(d, key, rec) == IF key \in DOMAIN d THEN d ELSE (key :> rec) @@ d

\* players[key] = rec on a dict given as mapping and insertion order
DictSet(d, key, rec) == (key :> rec) @@ d
DictOrder(d, ord_, key) == IF key \in DOMAIN d THEN ord_ ELSE Append(ord_, key)

key_of(row) == normalise_name(Str(name_of(row)))

\* the fields each secondary table owns, as the assignments of its loop body
GkUpdate(p, row) ==
    [p EXCEPT !.cleanSheets   = safe_int(RowGet(row, "CS", IntV(0))),
              !.saves         = safe_int(RowGet(row, "Saves", IntV(0))),
              !.penaltySaves  = safe_int(RowGet(row, "PKsv", IntV(0))),
              !.goalsConceded = safe_int(RowGet(row, "GA", IntV(0)))]
\* the defensive loop body with a field name copied from the goalkeeping one
DefUpdate_copy_paste(p, row) ==
    [p EXCEPT !.saves         = safe_int(RowGet(row, "TklW", IntV(0))),
              !.interceptions = safe_int(RowGet(row, "Int", IntV(0)))]
DefUpdate(p, row) ==
    [p EXCEPT !.tacklesWon    = safe_int(RowGet(row, "TklW", IntV(0))),
              !.interceptions = safe_int(RowGet(row, "Int", IntV(0)))]
PasUpdate(p, row) ==
    [p EXCEPT !.keyPasses         = safe_int(RowGet(row, "KP", IntV(0))),
              !.bigChancesCreated = safe_int(RowGet(row, "PPA", IntV(0)))]

\* a loop body that keeps points up to date while merging
Update_rescoring(source, p, row) ==
    LET q == CASE source = "goalkeeping" -> GkUpdate(p, row)
               [] source = "defensive"   -> DefUpdate(p, row)
               [] source = "passing"     -> PasUpdate(p, row)
    IN  [f \in DOMAIN q \cup {"points"} |-> IF f = "points" THEN calculate_points(q) ELSE q[f]]

\* the loop body of the pass over the table of a source
Update(source, p, row) ==
    CASE source = "goalkeeping" -> GkUpdate(p, row)
      [] source = "defensive"   -> DefUpdate(p, row)
      [] source = "passing"     -> PasUpdate(p, row)

\* an enrichment loop that inserts a record for a name it does not find
MergeRow_upserting(d, row, source) ==
    IF Skipped(row) THEN d
    ELSE IF key_of(row) \in DOMAIN d
         THEN [d EXCEPT ![key_of(row)] = Update(source, @, row)]
         ELSE DictSet(d, key_of(row), Update(source, SeedRecord(row), row))

\* one iteration of an enrichment loop
MergeRow(d, row, source) ==
    IF Skipped(row) THEN d
    ELSE IF key_of(row) \in DOMAIN d
         THEN [d EXCEPT ![key_of(row)] = Update(source, @, row)]
         ELSE d

\* p["points"] = v
SetPoints(p, v) == [f \in DOMAIN p \cup {"points"} |-> IF f = "points" THEN v ELSE p[f]]

\* insertion that puts a record before the records of equal points
RECURSIVE InsertDesc_unstable(_, _, _)
InsertDesc_unstable(sorted, k, d) ==
    IF sorted = <<>> THEN <<k>>
    ELSE IF d[Head(sorted)].points > d[k].points
         THEN <<Head(sorted)>> \o InsertDesc_unstable(Tail(sorted), k, d)
         ELSE <<k>> \o sorted

\* list.sort(key=lambda x: x["points"], reverse=True): a stable sort
RECURSIVE InsertDesc(_, _, _)
InsertDesc(sorted, k, d) ==
    IF sorted = <<>> THEN <<k>>
    ELSE IF d[Head(sorted)].points >= d[k].points
         THEN <<Head(sorted)>> \o InsertDesc(Tail(sorted), k, d)
         ELSE <<k>> \o sorted
RECURSIVE SortDesc(_, _, _)
SortDesc(list, acc, d) ==
    IF list = <<>> THEN acc
    ELSE SortDesc(Tail(list), InsertDesc(acc, Head(list), d), d)
sort(list, d) == SortDesc(list, <<>>, d)

\* the document json.dump writes
Document(list, d) ==
    [ updatedAt |-> "utcnow", season |-> "2024-25", league |-> "La Liga",
      source |-> "FBref.com", players |-> [i \in 1..Len(list) |-> d[list[i]]] ]

----------------------------------------------------------------------------
(* main, one step per fetch, per loop iteration and per statement block *)

Init ==
    /\ stage = "start"
    /\ rows = <<>>
    /\ players = NoColumns
    /\ order = <<>>
    /\ player_list = <<>>
    /\ cursor = 0
    /\ missing = {}
    /\ stdNames = {}
    /\ exit_code = <<>>
    /\ output = <<>>
    /\ arg = None
    /\ ret = 0

\* std = fetch_table(URLS["standard"]); exit(1) if it is None
FetchStandard ==
    /\ stage = "start"
    /\ \E resp \in Responses(StdRows, MaxStdRows) :
         LET std == fetch_table(resp)
         IN  IF std.none
             THEN /\ stage' = "exit"
                  /\ exit_code' = <<1>>
                  /\ UNCHANGED <<rows, stdNames>>
             ELSE /\ stage' = "seed"
                  /\ rows' = std.rows
                  /\ stdNames' = { RowGet(std.rows[i], "Player", Str(<<>>)) :
                                     i \in 1..Len(std.rows) }
                  /\ UNCHANGED exit_code
    /\ UNCHANGED <<players, order, player_list, cursor, missing, output, arg, ret>>

\* one iteration of `for _, row in std.iterrows()`
SeedRow ==
    /\ stage = "seed"
    /\ rows # <<>>
    /\ LET row == Head(rows)
       IN  IF Skipped(row)
           THEN UNCHANGED <<players, order>>
           ELSE /\ players' = DictSet(players, key_of(row), SeedRecord(row))
                /\ order' = DictOrder(players, order, key_of(row))
    /\ rows' = Tail(rows)
    /\ UNCHANGED <<stage, player_list, cursor, missing, stdNames, exit_code,
                   output, arg, ret>>

\* a secondary fetch that treats None as the standard fetch does: exit(1)
FetchSecondary_aborting(before, source, rowsOf) ==
    /\ stage = before
    /\ rows = <<>>
    /\ \E resp \in Responses(rowsOf, MaxSecRows) :
         LET df == fetch_table(resp)
         IN  /\ rows' = df.rows
             /\ missing' = IF df.none THEN missing \cup {source} ELSE missing
             /\ stage' = IF df.none THEN "exit" ELSE source
             /\ exit_code' = IF df.none THEN <<1>> ELSE exit_code
    /\ UNCHANGED <<players, order, player_list, cursor, stdNames, output, arg, ret>>

\* <df> = fetch_table(URLS[source]) after the loop of the stage before; a
\* None result skips the loop of this source
FetchSecondary(before, source, rowsOf) ==
    /\ stage = before
    /\ rows = <<>>
    /\ \E resp \in Responses(rowsOf, MaxSecRows) :
         LET df == fetch_table(resp)
         IN  /\ rows' = df.rows
             /\ missing' = IF df.none THEN missing \cup {source} ELSE missing
    /\ stage' = source
    /\ UNCHANGED <<players, order, player_list, cursor, stdNames, exit_code,
                   output, arg, ret>>

\* one iteration of the loop over a secondary table
MergeSecondary(source) ==
    /\ stage = source
    /\ rows # <<>>
    /\ players' = MergeRow(players, Head(rows), source)
    /\ rows' = Tail(rows)
    /\ UNCHANGED <<stage, order, player_list, cursor, missing, stdNames,
                   exit_code, output, arg, ret>>

FetchGoalkeeping == FetchSecondary("seed", "goalkeeping", SecRows(GkCells, GkCellsBad))
MergeGoalkeeping == MergeSecondary("goalkeeping")
FetchDefensive   == FetchSecondary("goalkeeping", "defensive", SecRows(DefCells, DefCellsBad))
MergeDefensive   == MergeSecondary("defensive")
FetchPassing     == FetchSecondary("defensive", "passing", SecRows(PasCells, PasCellsBad))
MergePassing     == MergeSecondary("passing")

\* player_list = list(players.values())
ListPlayers ==
    /\ stage = "passing"
    /\ rows = <<>>
    /\ player_list' = order
    /\ cursor' = 0
    /\ stage' = "score"
    /\ UNCHANGED <<rows, players, order, missing, stdNames, exit_code,
                   output, arg, ret>>

\* one iteration of `for p in player_list: p["points"] = calculate_points(p)`
ScorePlayer ==
    /\ stage = "score"
    /\ cursor < Len(player_list)
    /\ LET key == player_list[cursor + 1]
       IN  players' = [players EXCEPT ![key] = SetPoints(@, calculate_points(@))]
    /\ cursor' = cursor + 1
    /\ UNCHANGED <<stage, rows, order, player_list, missing, stdNames,
                   exit_code, output, arg, ret>>

\* player_list.sort(key=lambda x: x["points"], reverse=True)
SortPlayers ==
    /\ stage = "score"
    /\ cursor = Len(player_list)
    /\ player_list' = sort(player_list, players)
    /\ stage' = "write"
    /\ UNCHANGED <<rows, players, order, cursor, missing, stdNames,
                   exit_code, output, arg, ret>>

\* json.dump(output, f), then main returns and the process ends with status 0
Persist ==
    /\ stage = "write"
    /\ output' = << Document(player_list, players) >>
    /\ exit_code' = <<0>>
    /\ stage' = "exit"
    /\ UNCHANGED <<rows, players, order, player_list, cursor, missing, stdNames,
                   arg, ret>>

Next ==
    \/ FetchStandard
    \/ SeedRow
    \/ FetchGoalkeeping
    \/ MergeGoalkeeping
    \/ FetchDefensive
    \/ MergeDefensive
    \/ FetchPassing
    \/ MergePassing
    \/ ListPlayers
    \/ ScorePlayer
    \/ SortPlayers
    \/ Persist

Spec == Init /\ [][Next]_vars

----------------------------------------------------------------------------
(* Stand-alone calls of safe_int and of calculate_points *)

Idle ==
    /\ rows = <<>>
    /\ players = NoColumns
    /\ order = <<>>
    /\ player_list = <<>>
    /\ cursor = 0
    /\ missing = {}
    /\ stdNames = {}
    /\ exit_code = <<>>
    /\ output = <<>>

CoerceAlphabet == {"0", "1", "2", ".", "-", " ", "n", "a", "N"}
CoerceInputs ==
    {None, NaN} \cup { IntV(n) : n \in -12..12 }
    \cup { Str(s) : s \in SeqsUpTo(CoerceAlphabet, MaxLen) }

InitCoerce ==
    /\ stage = "call safe_int"
    /\ arg \in CoerceInputs
    /\ ret = 0
    /\ Idle

CallSafeInt ==
    /\ stage = "call safe_int"
    /\ ret' = safe_int(arg)
    /\ stage' = "safe_int returned"
    /\ UNCHANGED <<rows, players, order, player_list, cursor, missing, stdNames,
                   exit_code, output, arg>>

\* the pipeline together with stand-alone calls of safe_int
SpecCoerce == (Init \/ InitCoerce) /\ [][Next \/ CallSafeInt]_vars

StatFields == {"goals", "assists", "yellowCards", "redCards", "ownGoals",
               "penaltiesMissed", "shotsOnTarget", "cleanSheets", "saves",
               "penaltySaves", "goalsConceded", "tacklesWon", "interceptions",
               "keyPasses", "bigChancesCreated"}

ZeroRecord ==
    [ id |-> 0, name |-> Ana, club |-> Unknown, pos |-> "MID", motm |-> 0 ]
    @@ [f \in StatFields |-> 0]

\* the two worked examples of the scoring rules
ExampleDEF == [ZeroRecord EXCEPT !.pos = "DEF", !.goals = 1, !.assists = 1,
                 !.cleanSheets = 1, !.tacklesWon = 2, !.interceptions = 3,
                 !.yellowCards = 1]
ExampleGK  == [ZeroRecord EXCEPT !.pos = "GK", !.cleanSheets = 2, !.saves = 10,
                 !.penaltySaves = 1, !.goalsConceded = 3]

\* records that differ from the all-zero record in at most two statistics
ScoreInputs ==
    { [ZeroRecord EXCEPT !.pos = q, ![f] = a, ![g] = b] :
        q \in {"GK", "DEF", "MID", "FWD", "XX"}, f \in StatFields, g \in StatFields,
        a \in -MaxStat..MaxStat, b \in -MaxStat..MaxStat }
    \cup {ExampleDEF, ExampleGK}

InitScore ==
    /\ stage = "call calculate_points"
    /\ arg \in ScoreInputs
    /\ ret = 0
    /\ Idle

CallCalculatePoints ==
    /\ stage \in {"call calculate_points", "calculate_points returned"}
    /\ ret' = calculate_points(arg)
    /\ stage' = "calculate_points returned"
    /\ UNCHANGED <<rows, players, order, player_list, cursor, missing, stdNames,
                   exit_code, output, arg>>

SpecScore == InitScore /\ [][CallCalculatePoints]_vars

----------------------------------------------------------------------------
(* What the specification says of value coercion, stated without parsing:  *)
(* a text is a decimal number when, blanks around it removed and one       *)
(* leading sign set aside, it consists of digits with at most one point    *)
(* and at least one digit                                                  *)

NonBlank(s) == { i \in 1..Len(s) : s[i] # " " }
Least(S)    == CHOOSE x \in S : \A y \in S : x <= y
Greatest(S) == CHOOSE x \in S : \A y \in S : x >= y
Core(s) == IF NonBlank(s) = {} THEN <<>>
           ELSE SubSeq(s, Least(NonBlank(s)), Greatest(NonBlank(s)))
Signed(s)   == Core(s) # <<>> /\ Core(s)[1] \in {"-", "+"}
Unsigned(s) == IF Signed(s) THEN SubSeq(Core(s), 2, Len(Core(s))) ELSE Core(s)
Points(s)   == { i \in 1..Len(Unsigned(s)) : Unsigned(s)[i] = "." }
IsDecimalText(s) ==
    /\ \A i \in 1..Len(Unsigned(s)) : IsDigit(Unsigned(s)[i]) \/ Unsigned(s)[i] = "."
    /\ Cardinality(Points(s)) <= 1
    /\ \E i \in 1..Len(Unsigned(s)) : IsDigit(Unsigned(s)[i])

\* the digits before the point, read as a number by place value
WholeLen(s) == IF Points(s) = {} THEN Len(Unsigned(s)) ELSE Least(Points(s)) - 1
RECURSIVE PlaceSum(_, _)
PlaceSum(s, i) == IF i > WholeLen(s) THEN 0
                  ELSE DigitValue(Unsigned(s)[i]) * 10 ^ (WholeLen(s) - i) + PlaceSum(s, i + 1)
\* the number truncated toward zero
Truncated(s) == IF Core(s)[1] = "-" THEN -PlaceSum(s, 1) ELSE PlaceSum(s, 1)

Coerced(val) ==
    CASE val.k = "None"  -> 0
      [] val.k = "float" -> 0
      [] val.k = "int"   -> val.n
      [] val.k = "str"   -> IF IsDecimalText(val.s) THEN Truncated(val.s) ELSE 0

AllInt(p) == \A f \in DOMAIN p \ {"name", "club", "pos"} : p[f] \in Int

----------------------------------------------------------------------------
(* What the specification says of scoring *)

\* floor(a / b): the greatest integer q with q * b <= a
Floor(a, b) == CHOOSE q \in -abs(a)..abs(a) : q * b <= a /\ (q + 1) * b > a

Additions(p) ==
    CASE p.pos = "GK"  -> p.cleanSheets * 4 + Floor(p.saves, 3) + p.penaltySaves * 5
                          - Floor(p.goalsConceded, 2)
      [] p.pos = "DEF" -> p.goals * 6 + p.assists * 3 + p.cleanSheets * 4
                          + p.tacklesWon + p.interceptions
      [] p.pos = "MID" -> p.goals * 5 + p.assists * 3 + p.cleanSheets + p.keyPasses
                          + p.shotsOnTarget + p.bigChancesCreated
      [] p.pos = "FWD" -> p.goals * 4 + p.assists * 3 + p.shotsOnTarget
                          + p.bigChancesCreated
      [] OTHER         -> 0
Penalties(p) == p.yellowCards + 3 * p.redCards + 2 * p.ownGoals + 2 * p.penaltiesMissed

\* C4: calculate_points returns the additions of the record's position minus
\* the shared penalties, with the two goalkeeper divisions floored; the record
\* it was given is left as it was (it gains no points field), and the two
\* worked examples give 17 and 15.
C4_PointsFormula ==
    stage = "calculate_points returned" =>
        /\ ret = Additions(arg) - Penalties(arg)
        /\ arg \in ScoreInputs
        /\ arg = ExampleDEF => ret = 17
        /\ arg = ExampleGK => ret = 15

C4_Witness ==
    /\ stage = "calculate_points returned"
    /\ arg.pos = "GK"
    /\ arg.saves = -1
    /\ arg.goalsConceded = 3
    /\ ret = -2

----------------------------------------------------------------------------
(* What the specification says of the records and of the passes *)

jose == <<"j", "o", "s", "e">>
ana  == <<"a", "n", "a">>
bob  == <<"b", "o", "b">>

\* the matching key of the names the pages use: lowercase, accents and
\* surrounding blanks removed
ClaimedKey(text) ==
    CASE Core(text) = Jose_accent            -> jose
      [] Core(text) = Jose_plain             -> jose
      [] Core(text) = <<"J", "O", "S", "E">> -> jose
      [] Core(text) = Ana                    -> ana
      [] Core(text) = Bob                    -> bob

\* a row names a player when its name is neither empty nor the placeholder
NamesPlayer(row) ==
    /\ "Player" \in DOMAIN row
    /\ row.Player.k = "str"
    /\ Core(row.Player.s) \notin {<<>>, Player}

ValidCell(c) == c.k = "str" /\ Core(c.s) \notin {<<>>, Player}
PrimaryKeys == { ClaimedKey(c.s) : c \in { c \in stdNames : ValidCell(c) } }

\* the first comma-separated code of the position tag, trimmed and uppercased
Commas(s) == { i \in 1..Len(s) : s[i] = "," }
FirstCode(s) == Core(IF Commas(s) = {} THEN s ELSE SubSeq(s, 1, Least(Commas(s)) - 1))
SameLetters(a, b) ==
    /\ Len(a) = Len(b)
    /\ \A i \in 1..Len(a) : a[i] = b[i] \/ (a[i] \in DOMAIN LowerOf /\ LowerOf[a[i]] = b[i])
ClaimedPos(row) ==
    IF "Pos" \notin DOMAIN row \/ row.Pos.k # "str" THEN "MID"
    ELSE CASE SameLetters(<<"G", "K">>, FirstCode(row.Pos.s)) -> "GK"
           [] SameLetters(<<"D", "F">>, FirstCode(row.Pos.s)) -> "DEF"
           [] SameLetters(<<"M", "F">>, FirstCode(row.Pos.s)) -> "MID"
           [] SameLetters(<<"F", "W">>, FirstCode(row.Pos.s)) -> "FWD"
           [] OTHER -> "MID"

\* the fields each source owns and the column each is read from
Owned(source) ==
    CASE source = "goalkeeping" -> {"cleanSheets", "saves", "penaltySaves", "goalsConceded"}
      [] source = "defensive"   -> {"tacklesWon", "interceptions"}
      [] source = "passing"     -> {"keyPasses", "bigChancesCreated"}
      [] OTHER                  -> {}
ColumnOf == [cleanSheets |-> "CS", saves |-> "Saves", penaltySaves |-> "PKsv",
             goalsConceded |-> "GA", tacklesWon |-> "TklW", interceptions |-> "Int",
             keyPasses |-> "KP", bigChancesCreated |-> "PPA"]
Sources == {"goalkeeping", "defensive", "passing"}

\* the first of the aliases the row has, coerced; 0 when it has none
RECURSIVE FirstAlias(_, _)
FirstAlias(row, aliases) ==
    IF aliases = <<>> THEN 0
    ELSE IF Head(aliases) \in DOMAIN row THEN Coerced(row[Head(aliases)])
    ELSE FirstAlias(row, Tail(aliases))

\* the seeded fields of a row (all fields of a record but its id)
ClaimedSeed(row) ==
    [ name              |-> Core(row.Player.s),
      club              |-> IF "Squad" \in DOMAIN row THEN Core(row.Squad.s) ELSE Unknown,
      pos               |-> ClaimedPos(row),
      goals             |-> FirstAlias(row, <<"Gls", "Goals">>),
      assists           |-> FirstAlias(row, <<"Ast", "Assists">>),
      yellowCards       |-> FirstAlias(row, <<"CrdY">>),
      redCards          |-> FirstAlias(row, <<"CrdR">>),
      ownGoals          |-> FirstAlias(row, <<"OG">>),
      penaltiesMissed   |-> FirstAlias(row, <<"PKmiss", "PKM">>),
      shotsOnTarget     |-> FirstAlias(row, <<"SoT">>),
      cleanSheets       |-> 0,
      saves             |-> 0,
      penaltySaves      |-> 0,
      goalsConceded     |-> 0,
      tacklesWon        |-> 0,
      interceptions     |-> 0,
      keyPasses         |-> 0,
      bigChancesCreated |-> 0,
      motm              |-> 0 ]
WithoutId(p) == [f \in DOMAIN p \ {"id"} |-> p[f]]

HasPoints(p) == "points" \in DOMAIN p
Written == output # <<>>
Succeeded == stage = "exit" /\ exit_code = <<0>>
Aborted == stage = "exit" /\ exit_code = <<1>>

----------------------------------------------------------------------------
\* C1: the run ends with exit code 1 and without an output document exactly
\* when the standard table could not be fetched or has no rows; every other
\* run ends with exit code 0.
C1_AbortsIffPrimaryMissingOrEmpty ==
    stage = "exit" =>
        /\ exit_code = <<1>> <=> stdNames = {}
        /\ exit_code = <<1>> => ~Written
        /\ exit_code \in {<<0>>, <<1>>}

----------------------------------------------------------------------------
\* C2: the keys of the records of the output are exactly the keys of the rows
\* of the standard table that name a player; the passes over the secondary
\* tables add no key and remove none, and every record of the output has
\* points.
C2_OutputKeysArePrimaryKeys ==
    /\ DOMAIN players \subseteq PrimaryKeys
    /\ stage \in Sources \cup {"score", "write"} \/ Succeeded
         => DOMAIN players = PrimaryKeys
    /\ Written =>
         LET recs == output[1].players
         IN  /\ { ClaimedKey(recs[i].name) : i \in 1..Len(recs) } = PrimaryKeys
             /\ Len(recs) = Cardinality(PrimaryKeys)
             /\ \A i \in 1..Len(recs) : HasPoints(recs[i])

C2_Witness ==
    /\ Written
    /\ Len(output[1].players) = 2
    /\ \E i \in 1..2 : /\ output[1].players[i].cleanSheets = 2
                       /\ output[1].players[i].tacklesWon = 2
                       /\ output[1].players[i].keyPasses = 1

----------------------------------------------------------------------------
\* the fields of a failed source are 0, and a run that ends after a failed
\* secondary fetch ends with exit code 0 and a written document
C3_FailedSourceFieldsZero ==
    /\ \A s \in missing : \A key \in DOMAIN players : \A f \in Owned(s) :
         players[key][f] = 0
    /\ missing # {} /\ stage = "exit" => exit_code = <<0>> /\ Written
    /\ Written => \A s \in missing : \A i \in 1..Len(output[1].players) :
                    \A f \in Owned(s) : output[1].players[i][f] = 0

\* the pass over a fetched table writes the coerced cells of the row it visits
C3_SucceededSourceMerged ==
    stage \in Sources /\ rows # <<>> /\ NamesPlayer(Head(rows))
      /\ ClaimedKey(Head(rows).Player.s) \in DOMAIN players
    => \A f \in Owned(stage) :
         players'[ClaimedKey(Head(rows).Player.s)][f]
           = IF ColumnOf[f] \in DOMAIN Head(rows) THEN Coerced(Head(rows)[ColumnOf[f]]) ELSE 0

\* C3: when the fetch of secondary sources fails after a successful fetch of
\* the standard table, the run still goes on through Persist and ends with
\* exit code 0; the fields owned by a failed source are 0 in every record, and
\* a pass of a source that was fetched writes the coerced cells of its rows.
C3_SecondaryFailureDegrades == []C3_FailedSourceFieldsZero /\ [][C3_SucceededSourceMerged]_vars

C3_Witness ==
    /\ Succeeded
    /\ Written
    /\ missing = {"defensive"}
    /\ \E key \in DOMAIN players : /\ players[key].cleanSheets = 2
                                   /\ players[key].keyPasses = 1
                                   /\ players[key].tacklesWon = 0

----------------------------------------------------------------------------
Index(seq, x) == CHOOSE i \in 1..Len(seq) : seq[i] = x

\* C5: the players of the output are the scored records, each once, with
\* points that never increase along the sequence, and records with equal
\* points stand in the order in which their keys entered the mapping.
C5_SortedStable ==
    stage = "write" \/ Succeeded =>
        /\ Len(player_list) = Cardinality(DOMAIN players)
        /\ \A key \in DOMAIN players : \E i \in 1..Len(player_list) : player_list[i] = key
        /\ \A i, j \in 1..Len(player_list) : i < j =>
             /\ players[player_list[i]].points >= players[player_list[j]].points
             /\ players[player_list[i]].points = players[player_list[j]].points
                  => Index(order, player_list[i]) < Index(order, player_list[j])
        /\ Written => output[1].players = [i \in 1..Len(player_list) |-> players[player_list[i]]]

C5_Witness ==
    /\ Written
    /\ Len(output[1].players) = 2
    /\ output[1].players[1].points = output[1].players[2].points
    /\ output[1].players[1].name # output[1].players[2].name

----------------------------------------------------------------------------
\* what a step taken in, or into, the pass of a source may change
C6_PassFrame ==
    stage \in Sources \/ stage' \in Sources =>
        /\ DOMAIN players' = DOMAIN players
        /\ \A key \in DOMAIN players :
             /\ \A f \in DOMAIN players[key] \ Owned(stage) :
                  players'[key][f] = players[key][f]
             /\ DOMAIN players'[key] = DOMAIN players[key]
             /\ players'[key] # players[key] =>
                  /\ stage \in Sources
                  /\ rows # <<>>
                  /\ NamesPlayer(Head(rows))
                  /\ ClaimedKey(Head(rows).Player.s) = key

\* C6: a pass over a secondary table changes only the fields its source owns,
\* and only in the record whose key is that of the row it visits; it adds and
\* removes no record, and a pass over an empty table changes nothing.
C6_EnrichmentFrame == [][C6_PassFrame]_vars

C6_Witness ==
    /\ stage = "defensive"
    /\ rows = <<>>
    /\ \E key \in DOMAIN players : /\ players[key].cleanSheets = 2
                                   /\ players[key].tacklesWon = 2
                                   /\ players[key].interceptions = 3

----------------------------------------------------------------------------
\* one record per key, under the key of its name
C8_OneRecordPerKey ==
    /\ Len(order) = Cardinality(DOMAIN players)
    /\ \A key \in DOMAIN players : \E i \in 1..Len(order) : order[i] = key
    /\ \A key \in DOMAIN players : ClaimedKey(players[key].name) = key

\* a seeding step replaces the whole record of the key of its row
C8_LaterRowReplaces ==
    /\ stage = "seed" /\ rows # <<>> /\ NamesPlayer(Head(rows)) =>
         LET key == ClaimedKey(Head(rows).Player.s)
         IN  /\ WithoutId(players'[key]) = ClaimedSeed(Head(rows))
             /\ DOMAIN players' = DOMAIN players \cup {key}
             /\ \A other \in DOMAIN players \ {key} : players'[other] = players[other]
             /\ key \in DOMAIN players => order' = order
    /\ stage \notin {"start", "seed"} => DOMAIN players' = DOMAIN players

\* C8: the mapping holds one record per key, the key of a record is the key of
\* its name and no key leaves or enters the mapping after seeding; a row of
\* the standard table replaces the whole record of its key, so that of two rows
\* with one key the later one alone is kept.
C8_KeyedMapping == []C8_OneRecordPerKey /\ [][C8_LaterRowReplaces]_vars

C8_Witness ==
    /\ stage = "seed"
    /\ rows = <<>>
    /\ stdNames = {Str(Jose_accent), Str(JOSE_padded)}
    /\ order = <<jose>>
    /\ players[jose].name = <<"J", "O", "S", "E">>
    /\ players[jose].pos = "GK"

----------------------------------------------------------------------------
Rank == [start |-> 0, seed |-> 1, goalkeeping |-> 2, defensive |-> 3, passing |-> 4,
         score |-> 5, write |-> 6, exit |-> 7]
SomeScored == \E key \in DOMAIN players : HasPoints(players[key])
AllScored  == \A key \in DOMAIN players : HasPoints(players[key])

\* the stages follow one another in one order, none is entered twice
C9_Forward ==
    stage' # stage => \/ Rank[stage'] = Rank[stage] + 1
                      \/ stage = "start" /\ stage' = "exit"
\* no record has points before the seeding and the three passes are over;
\* sorting starts when every record has points; Persist follows the sorting
C9_Order ==
    /\ SomeScored => stage \in {"score", "write", "exit"}
    /\ stage \in {"write", "exit"} /\ ~Aborted => AllScored
    /\ player_list' # player_list /\ stage = "score" => AllScored
    /\ Written => stage = "exit"
    /\ ~Written /\ Written' => stage = "write"

\* C9 as stated: once a record has points, no field of any record changes
C9_StagesOrderedRecordsFrozen ==
    [][ /\ C9_Forward
        /\ C9_Order
        /\ SomeScored => players' = players ]_vars

\* C9 amended: once a record has points, no field of that record changes, and
\* of the other records only the points field is still to be assigned
C9_StagesOrderedScoredFrozen ==
    [][ /\ C9_Forward
        /\ C9_Order
        /\ \A key \in DOMAIN players :
             /\ HasPoints(players[key]) => players'[key] = players[key]
             /\ SomeScored => /\ key \in DOMAIN players'
                              /\ \A f \in DOMAIN players[key] :
                                   players'[key][f] = players[key][f] ]_vars

C9_Witness ==
    /\ Succeeded
    /\ Written
    /\ Len(player_list) = 2
    /\ player_list # order
    /\ missing = {"goalkeeping"}

----------------------------------------------------------------------------
\* every pos is a bucket, and every scored record got its bucket's additions
C10_PosIsBucket ==
    \A key \in DOMAIN players :
        /\ players[key].pos \in {"GK", "DEF", "MID", "FWD"}
        /\ HasPoints(players[key]) =>
             players[key].points = Additions(players[key]) - Penalties(players[key])

\* a seeding step classifies by the first code of the row's Pos cell
C10_PosFromFirstCode ==
    stage = "seed" /\ rows # <<>> /\ NamesPlayer(Head(rows)) =>
        players'[ClaimedKey(Head(rows).Player.s)].pos = ClaimedPos(Head(rows))

\* C10: the pos of every record is GK, DEF, MID or FWD, and is the bucket of
\* the first comma-separated code of the Pos cell of its row, trimmed and
\* uppercased, MID for any other code and for a missing cell; so scoring never
\* meets a record without positional additions.
C10_PositionClassified == []C10_PosIsBucket /\ [][C10_PosFromFirstCode]_vars

C10_Witness ==
    /\ stage = "seed"
    /\ rows = <<>>
    /\ jose \in DOMAIN players
    /\ ana \in DOMAIN players
    /\ players[jose].pos = "FWD"
    /\ players[ana].pos = "DEF"

====
